---------------------------- MODULE Spec2Model ----------------------------
(***************************************************************************)
(* QualityMeasuresProcessor (quality_measures_processor.go): a batch run   *)
(* that lists the schema directory, loads each CSV schema, derives and     *)
(* loads the paired fixed-width data file, decodes every line against the  *)
(* schema and posts the JSON document of each decoded line.                *)
(*                                                                         *)
(* Go strings are sequences of one-character strings.  A JSON document is  *)
(* the map json.Marshal serialises (field name -> typed value); Marshal    *)
(* is injective on such maps and cannot fail on string/int/bool values.    *)
(* A Go run-time panic (index or slice out of range, log.Panic) ends the   *)
(* process: pc = "panicked".                                               *)
(***************************************************************************)
EXTENDS Integers, Sequences, FiniteSets, TLC

\* ------------------------------------------------------------ constants
CSV_NAME_INDEX == 0
CSV_WIDTH_INDEX == 1
CSV_DATA_TYPE_INDEX == 2

DATA_TYPE_TEXT == "TEXT"
DATA_TYPE_INTEGER == "INTEGER"
DATA_TYPE_BOOLEAN == "BOOLEAN"

\* The data extension appended at line 57.
TXT == <<".", "t", "x", "t">>

\* ------------------------------------------------------- library calls
\* unicode.IsSpace on the characters the inputs use.
Whitespace == {" ", "\t", "\n", "\r", "\f"}

RECURSIVE TrimLeft(_)
TrimLeft(s) ==
    IF s # <<>> /\ Head(s) \in Whitespace THEN TrimLeft(Tail(s)) ELSE s

RECURSIVE TrimRight(_)
TrimRight(s) ==
    IF s # <<>> /\ s[Len(s)] \in Whitespace
    THEN TrimRight(SubSeq(s, 1, Len(s) - 1))
    ELSE s

\* strings.TrimSpace
TrimSpace(s) == TrimRight(TrimLeft(s))

Digits == {"0", "1", "2", "3", "4", "5", "6", "7", "8", "9"}

DigitVal(c) ==
    CASE c = "0" -> 0 [] c = "1" -> 1 [] c = "2" -> 2 [] c = "3" -> 3
      [] c = "4" -> 4 [] c = "5" -> 5 [] c = "6" -> 6 [] c = "7" -> 7
      [] c = "8" -> 8 [] c = "9" -> 9

RECURSIVE DecimalValue(_, _)
DecimalValue(s, acc) ==
    IF s = <<>> THEN acc ELSE DecimalValue(Tail(s), 10 * acc + DigitVal(Head(s)))

\* strconv.Atoi: an optional sign, then one or more decimal digits.  The
\* inputs are a few characters long, so the range error of a value outside
\* the int type does not arise.
Atoi(s) ==
    LET signed == s # <<>> /\ Head(s) \in {"+", "-"}
        body   == IF signed THEN Tail(s) ELSE s
    IN  IF body = <<>> \/ \E k \in 1..Len(body) : body[k] \notin Digits
        THEN [err |-> TRUE, val |-> 0]
        ELSE [err |-> FALSE,
              val |-> IF signed /\ Head(s) = "-"
                      THEN 0 - DecimalValue(body, 0)
                      ELSE DecimalValue(body, 0)]

TrueLiterals ==
    { <<"1">>, <<"t">>, <<"T">>, <<"T", "R", "U", "E">>,
      <<"t", "r", "u", "e">>, <<"T", "r", "u", "e">> }

FalseLiterals ==
    { <<"0">>, <<"f">>, <<"F">>, <<"F", "A", "L", "S", "E">>,
      <<"f", "a", "l", "s", "e">>, <<"F", "a", "l", "s", "e">> }

\* strconv.ParseBool
ParseBool(s) ==
    IF s \in TrueLiterals THEN [err |-> FALSE, val |-> TRUE]
    ELSE IF s \in FalseLiterals THEN [err |-> FALSE, val |-> FALSE]
    ELSE [err |-> TRUE, val |-> FALSE]

RECURSIVE FirstIndexFrom(_, _, _)
FirstIndexFrom(s, c, k) ==
    IF k > Len(s) THEN -1
    ELSE IF s[k] = c THEN k - 1
    ELSE FirstIndexFrom(s, c, k + 1)

\* Mutant of LastIndex: strings.Index, the first occurrence.
FirstIndex(s, c) == FirstIndexFrom(s, c, 1)

RECURSIVE LastIndexFrom(_, _, _)
LastIndexFrom(s, c, k) ==
    IF k = 0 THEN -1
    ELSE IF s[k] = c THEN k - 1
    ELSE LastIndexFrom(s, c, k - 1)

\* strings.LastIndex(s, c) for a one-character c: the 0-based index of the
\* last occurrence, -1 when there is none.
LastIndex(s, c) == LastIndexFrom(s, c, Len(s))


\* ------------------------------------------------------------ getSchema
\* The zero value of the Field struct, as make([]Field, n) fills it.
ZeroField == [Name |-> "", Width |-> 0, Type |-> ""]

\* What getSchema returns: (fields, nil), (nil, err), or a run-time panic.
SchemaOk(fields) == [kind |-> "ok", fields |-> fields, log |-> <<>>]
SchemaError(msg) == [kind |-> "error", fields |-> <<>>, log |-> <<msg>>]
SchemaPanic == [kind |-> "panic", fields |-> <<>>, log |-> <<>>]

\* The rows loop of getSchema, from row i on.  record[k] of a row with no
\* column k is an index out of range.
RECURSIVE getSchemaRows(_, _, _)
getSchemaRows(records, i, fields) ==
    IF i > Len(records) THEN SchemaOk(fields)
    ELSE
      LET record == records[i] IN
      IF Len(record) <= CSV_WIDTH_INDEX THEN SchemaPanic
      ELSE
        LET width == Atoi(TrimSpace(record[CSV_WIDTH_INDEX + 1])) IN
        IF width.err THEN SchemaError("invalid integer value for width")
        ELSE IF Len(record) <= CSV_DATA_TYPE_INDEX THEN SchemaPanic
        ELSE
          LET dataType == record[CSV_DATA_TYPE_INDEX + 1] IN
          IF dataType # DATA_TYPE_BOOLEAN /\ dataType # DATA_TYPE_INTEGER
               /\ dataType # DATA_TYPE_TEXT
          THEN SchemaError("invalid value for data type")
          ELSE getSchemaRows(records, i + 1,
                 [fields EXCEPT ![i] = [Name  |-> record[CSV_NAME_INDEX + 1],
                                        Width |-> width.val,
                                        Type  |-> dataType]])

\* getSchema on the content of schemas/<fileName>: file is
\* [openErr, parseErr, records], records being what csv.ReadAll yields.
getSchema(file) ==
    IF file.openErr THEN SchemaError("error opening CSV file")
    ELSE IF file.parseErr THEN SchemaError("error parsing CSV file")
    ELSE getSchemaRows(file.records, 1,
                       [k \in 1..Len(file.records) |-> ZeroField])

\* -------------------------------------------------------------- getData
\* getData on data/<fileName>: dir maps the names of the files present to
\* [readErr, lines], lines being what the Scanner yielded before it stopped.
getData(dir, fileName) ==
    IF fileName \notin DOMAIN dir
    THEN [err |-> TRUE, records |-> <<>>, log |-> <<"error opening data file">>]
    ELSE IF dir[fileName].readErr
    THEN [err |-> TRUE, records |-> dir[fileName].lines,
          log |-> <<"error reading data file">>]
    ELSE [err |-> FALSE, records |-> dir[fileName].lines, log |-> <<>>]

\* -------------------------------------------------------- getRecordJson
\* The values of map[string]interface{}, one shape for the three types.
TextVal(s) == [type |-> "string", text |-> s, int |-> 0, bool |-> FALSE]
IntVal(i) == [type |-> "int", text |-> <<>>, int |-> i, bool |-> FALSE]
BoolVal(b) == [type |-> "bool", text |-> <<>>, int |-> 0, bool |-> b]

\* make(map[string]interface{}); also stands for the nil []byte of an error.
EmptyMap == [n \in {} |-> TextVal(<<>>)]

\* data[name] = value
MapSet(data, name, value) ==
    [n \in (DOMAIN data) \cup {name} |-> IF n = name THEN value ELSE data[n]]

\* s[lo:hi] is in range
SliceInRange(s, lo, hi) == 0 <= lo /\ lo <= hi /\ hi <= Len(s)

JsonOk(data) == [kind |-> "ok", json |-> data, log |-> <<>>]
JsonError(msg) == [kind |-> "error", json |-> EmptyMap, log |-> <<msg>>]
JsonPanic == [kind |-> "panic", json |-> EmptyMap, log |-> <<>>]

\* The fields loop of getRecordJson, from field i on.
RECURSIVE getRecordJsonFields(_, _, _, _, _)
getRecordJsonFields(dataRecord, schema, i, startIndex, data) ==
    IF i > Len(schema) THEN JsonOk(data)
    ELSE
      LET field == schema[i] IN
      IF ~SliceInRange(dataRecord, startIndex, startIndex + field.Width)
      THEN JsonPanic
      ELSE
        LET fieldValue ==
              TrimSpace(SubSeq(dataRecord, startIndex + 1,
                               startIndex + field.Width))
            next(d) == getRecordJsonFields(dataRecord, schema, i + 1,
                                           startIndex + field.Width, d)
        IN  CASE field.Type = DATA_TYPE_BOOLEAN ->
                   LET b == ParseBool(fieldValue) IN
                   IF b.err THEN JsonError("invalid boolean value")
                   ELSE next(MapSet(data, field.Name, BoolVal(b.val)))
              [] field.Type = DATA_TYPE_INTEGER ->
                   LET n == Atoi(fieldValue) IN
                   IF n.err THEN JsonError("invalid integer value")
                   ELSE next(MapSet(data, field.Name, IntVal(n.val)))
              [] field.Type = DATA_TYPE_TEXT ->
                   next(MapSet(data, field.Name, TextVal(fieldValue)))
              [] OTHER -> next(data)

getRecordJson(dataRecord, schema) ==
    getRecordJsonFields(dataRecord, schema, 1, 0, EmptyMap)

\* --------------------------------------------------------------- inputs
\* At most MaxFiles schema files are present in a run.
MaxFiles == 2

\* Schema file names, in the byte order ioutil.ReadDir lists them in.
NameOrder ==
    << <<"a", ".", "b", ".", "c", "s", "v">>,
       <<"a", ".", "c", "s", "v">>,
       <<"a", "b">> >>

NameSet == {NameOrder[k] : k \in 1..Len(NameOrder)}

\* Names the data directory may hold.
DataNames ==
    { <<"a", ".", "b", ".", "t", "x", "t">>, <<"a", ".", "t", "x", "t">> }

Csv(records) == [openErr |-> FALSE, parseErr |-> FALSE, records |-> records]

\* Contents of a schema file.  csv.ReadAll gives every row of a file the
\* column count of its first row, or fails.
SchemaFiles ==
    { \* id,3,INTEGER / flag,1,BOOLEAN
      Csv(<< <<"id", <<"3">>, "INTEGER">>, <<"flag", <<"1">>, "BOOLEAN">> >>),
      \* name, 2 ,TEXT / n,2,INTEGER
      Csv(<< <<"name", <<" ", "2", " ">>, "TEXT">>, <<"n", <<"2">>, "INTEGER">> >>),
      \* id,3,INTEGER / flag,x,BOOLEAN
      Csv(<< <<"id", <<"3">>, "INTEGER">>, <<"flag", <<"x">>, "BOOLEAN">> >>),
      \* id,3,INTEGER / code,1,FLOAT
      Csv(<< <<"id", <<"3">>, "INTEGER">>, <<"code", <<"1">>, "FLOAT">> >>),
      \* id,3,INTEGER / pad,-1,TEXT
      Csv(<< <<"id", <<"3">>, "INTEGER">>, <<"pad", <<"-", "1">>, "TEXT">> >>),
      \* id,3,INTEGER / gap,0,TEXT / flag,1,BOOLEAN
      Csv(<< <<"id", <<"3">>, "INTEGER">>, <<"gap", <<"0">>, "TEXT">>,
             <<"flag", <<"1">>, "BOOLEAN">> >>),
      \* v,3,INTEGER / v,1,BOOLEAN
      Csv(<< <<"v", <<"3">>, "INTEGER">>, <<"v", <<"1">>, "BOOLEAN">> >>),
      \* a,3 / b,x
      Csv(<< <<"a", <<"3">> >>, <<"b", <<"x">> >> >>),
      \* a
      Csv(<< <<"a">> >>),
      \* an empty file
      Csv(<< >>),
      \* a file the CSV reader rejects
      [openErr |-> FALSE, parseErr |-> TRUE, records |-> << >>],
      \* a file that cannot be opened
      [openErr |-> TRUE, parseErr |-> FALSE, records |-> << >>] }

L042T == <<"0", "4", "2", "T">>
L04 == <<"0", "4">>
L123F == <<"1", "2", "3", "F">>
L0x2T == <<"0", "x", "2", "T">>
L042X == <<"0", "4", "2", "X">>
LNeg == <<"-", "1", "2", "f">>
LPad == <<" ", "7", " ", "1">>
LText == <<"a", "b", " ", "7">>

\* Contents of a data file.
DataFiles ==
    { [readErr |-> FALSE, lines |-> << >>],
      [readErr |-> TRUE, lines |-> <<L042T>>],
      [readErr |-> FALSE, lines |-> <<L042T, LPad, LText>>],
      [readErr |-> FALSE, lines |-> <<L042T, L04, L123F>>],
      [readErr |-> FALSE, lines |-> <<L0x2T, L042T, L042X, LNeg>>] }

\* The files of the schemas directory that a run lists.
Listing(dir) ==
    SelectSeq(NameOrder, LAMBDA n : n \in DOMAIN dir)

\* ---------------------------------------------------------------- state
VARIABLES
    dirOK,         \* ioutil.ReadDir("schemas") succeeds
    schemaDir,     \* schemas/: file name -> content
    dataDir,       \* data/: file name -> content
    pc,            \* where main is
    fileNames,     \* schemaFileNames
    fi,            \* position of the outer loop in fileNames (1-based)
    schema,        \* the []Field of the current schema file
    dataFileName,  \* the derived data file name
    dataRecords,   \* the lines of the current data file
    li,            \* position of the inner loop in dataRecords (1-based)
    recordJson,    \* the document of the current line
    posted,        \* the documents handed to postRecord, in call order
    opened,        \* the names getData was called with, in call order
    logged,        \* the log lines of the last step
    panicked       \* the run-time error that ended the process, "" if none

vars == << dirOK, schemaDir, dataDir, pc, fileNames, fi, schema, dataFileName,
           dataRecords, li, recordJson, posted, opened, logged, panicked >>

files == << dirOK, schemaDir, dataDir >>

Init ==
    /\ \/ /\ dirOK = FALSE
          /\ schemaDir = [n \in {} |-> Csv(<< >>)]
          /\ dataDir = [n \in {} |-> [readErr |-> FALSE, lines |-> << >>]]
       \/ /\ dirOK = TRUE
          /\ \E present \in SUBSET NameSet :
                /\ Cardinality(present) <= MaxFiles
                /\ schemaDir \in [present -> SchemaFiles]
          /\ \E present \in SUBSET DataNames :
                dataDir \in [present -> DataFiles]
    /\ pc = "start"
    /\ fileNames = << >>
    /\ fi = 0
    /\ schema = << >>
    /\ dataFileName = << >>
    /\ dataRecords = << >>
    /\ li = 0
    /\ recordJson = EmptyMap
    /\ posted = << >>
    /\ opened = << >>
    /\ logged = << >>
    /\ panicked = ""

\* main, lines 38-41: list the schema files, or panic.
ListSchemaFiles ==
    /\ pc = "start"
    /\ IF dirOK
       THEN /\ fileNames' = Listing(schemaDir)
            /\ fi' = 1
            /\ pc' = "file"
            /\ logged' = << >>
            /\ panicked' = ""
       ELSE /\ pc' = "panicked"
            /\ panicked' = "ReadDir"
            /\ logged' = <<"error attempting to list schema files">>
            /\ UNCHANGED << fileNames, fi >>
    /\ UNCHANGED << files, schema, dataFileName, dataRecords, li, recordJson,
                    posted, opened >>

\* main, lines 43-49: load the schema of the next schema file.
LoadSchema ==
    /\ pc = "file"
    /\ fi <= Len(fileNames)
    /\ LET r == getSchema(schemaDir[fileNames[fi]]) IN
       CASE r.kind = "ok" ->
              /\ schema' = r.fields
              /\ pc' = "name"
              /\ logged' = r.log
              /\ UNCHANGED << fi, panicked >>
         [] r.kind = "error" ->
              /\ schema' = r.fields
              /\ logged' = r.log \o <<"Skipping schema file">>
              /\ fi' = fi + 1
              /\ UNCHANGED << pc, panicked >>
         [] r.kind = "panic" ->
              /\ pc' = "panicked"
              /\ panicked' = "index out of range"
              /\ logged' = r.log
              /\ UNCHANGED << fi, schema >>
    /\ UNCHANGED << files, fileNames, dataFileName, dataRecords, li,
                    recordJson, posted, opened >>

\* main, lines 52-57: derive the data file name.
DeriveDataFileName ==
    /\ pc = "name"
    /\ LET fileName == fileNames[fi]
           dotIndex == LastIndex(fileName, ".")
       IN  IF dotIndex = -1
           THEN /\ logged' = <<"Found schema filename with no '.'">>
                /\ fi' = fi + 1
                /\ pc' = "file"
                /\ UNCHANGED dataFileName
           ELSE /\ dataFileName' = SubSeq(fileName, 1, dotIndex) \o TXT
                /\ pc' = "data"
                /\ logged' = << >>
                /\ UNCHANGED fi
    /\ UNCHANGED << files, fileNames, schema, dataRecords, li, recordJson,
                    posted, opened, panicked >>

\* Mutant of LoadData: the lines read before a read error are processed
\* (getData returns them beside the error); only a file that cannot be
\* opened is skipped.
LoadData_KeepsPartialLines ==
    /\ pc = "data"
    /\ LET r == getData(dataDir, dataFileName) IN
       /\ opened' = Append(opened, dataFileName)
       /\ dataRecords' = r.records
       /\ IF r.err /\ r.records = << >>
          THEN /\ logged' = r.log \o <<"Skipping data file">>
               /\ fi' = fi + 1
               /\ pc' = "file"
               /\ UNCHANGED li
          ELSE /\ logged' = r.log
               /\ li' = 1
               /\ pc' = "record"
               /\ UNCHANGED fi
    /\ UNCHANGED << files, fileNames, schema, dataFileName, recordJson, posted,
                    panicked >>

\* main, lines 58-62: load the lines of the data file.
LoadData ==
    /\ pc = "data"
    /\ LET r == getData(dataDir, dataFileName) IN
       /\ opened' = Append(opened, dataFileName)
       /\ dataRecords' = r.records
       /\ IF r.err
          THEN /\ logged' = r.log \o <<"Skipping data file">>
               /\ fi' = fi + 1
               /\ pc' = "file"
               /\ UNCHANGED li
          ELSE /\ logged' = r.log
               /\ li' = 1
               /\ pc' = "record"
               /\ UNCHANGED fi
    /\ UNCHANGED << files, fileNames, schema, dataFileName, recordJson, posted,
                    panicked >>

\* Mutant of DecodeRecord: a line that fails to decode ends the lines loop
\* (break for continue).
DecodeRecord_BreaksOnError ==
    /\ pc = "record"
    /\ li <= Len(dataRecords)
    /\ LET r == getRecordJson(dataRecords[li], schema) IN
       CASE r.kind = "ok" ->
              /\ recordJson' = r.json
              /\ pc' = "post"
              /\ logged' = r.log
              /\ UNCHANGED << li, panicked >>
         [] r.kind = "error" ->
              /\ recordJson' = r.json
              /\ logged' = r.log \o <<"Skipping data record">>
              /\ li' = Len(dataRecords) + 1
              /\ UNCHANGED << pc, panicked >>
         [] r.kind = "panic" ->
              /\ pc' = "panicked"
              /\ panicked' = "slice bounds out of range"
              /\ logged' = r.log
              /\ UNCHANGED << li, recordJson >>
    /\ UNCHANGED << files, fileNames, fi, schema, dataFileName, dataRecords,
                    posted, opened >>

\* main, lines 65-70: decode the next line of the data file.
DecodeRecord ==
    /\ pc = "record"
    /\ li <= Len(dataRecords)
    /\ LET r == getRecordJson(dataRecords[li], schema) IN
       CASE r.kind = "ok" ->
              /\ recordJson' = r.json
              /\ pc' = "post"
              /\ logged' = r.log
              /\ UNCHANGED << li, panicked >>
         [] r.kind = "error" ->
              /\ recordJson' = r.json
              /\ logged' = r.log \o <<"Skipping data record">>
              /\ li' = li + 1
              /\ UNCHANGED << pc, panicked >>
         [] r.kind = "panic" ->
              /\ pc' = "panicked"
              /\ panicked' = "slice bounds out of range"
              /\ logged' = r.log
              /\ UNCHANGED << li, recordJson >>
    /\ UNCHANGED << files, fileNames, fi, schema, dataFileName, dataRecords,
                    posted, opened >>

\* What http.Post and reading the response can come to.
PostOutcomes ==
    { "Received error response from API", "Got error parsing API response",
      "Received 200 response from API", "Received 500 response from API" }

\* Mutant of PostRecord: a submission that ends in a transport error is
\* made again.
PostRecord_RetriesOnError ==
    /\ pc = "post"
    /\ \E outcome \in PostOutcomes :
          /\ logged' = <<"POSTing JSON data to API", outcome>>
          /\ IF outcome = "Received error response from API"
             THEN UNCHANGED << li, pc >>
             ELSE li' = li + 1 /\ pc' = "record"
    /\ posted' = Append(posted, recordJson)
    /\ UNCHANGED << files, fileNames, fi, schema, dataFileName, dataRecords,
                    recordJson, opened, panicked >>

\* main, line 72, and postRecord: submit the document and log the outcome.
PostRecord ==
    /\ pc = "post"
    /\ \E outcome \in PostOutcomes :
          logged' = <<"POSTing JSON data to API", outcome>>
    /\ posted' = Append(posted, recordJson)
    /\ li' = li + 1
    /\ pc' = "record"
    /\ UNCHANGED << files, fileNames, fi, schema, dataFileName, dataRecords,
                    recordJson, opened, panicked >>

\* main, lines 65 and 73-74: the lines are used up, go to the next file.
NextFile ==
    /\ pc = "record"
    /\ li > Len(dataRecords)
    /\ fi' = fi + 1
    /\ pc' = "file"
    /\ logged' = << >>
    /\ UNCHANGED << files, fileNames, schema, dataFileName, dataRecords, li,
                    recordJson, posted, opened, panicked >>

\* main, lines 43 and 75: the schema files are used up, main returns.
Finish ==
    /\ pc = "file"
    /\ fi > Len(fileNames)
    /\ pc' = "finished"
    /\ logged' = << >>
    /\ UNCHANGED << files, fileNames, fi, schema, dataFileName, dataRecords,
                    li, recordJson, posted, opened, panicked >>

Next ==
    \/ ListSchemaFiles
    \/ LoadSchema
    \/ DeriveDataFileName
    \/ LoadData
    \/ DecodeRecord
    \/ PostRecord
    \/ NextFile
    \/ Finish

Spec == Init /\ [][Next]_vars

\* ----------------------------------------------- what the claims speak of
RECURSIVE SumWidths(_, _)
\* The sum of the widths of the first n fields.
SumWidths(fields, n) ==
    IF n = 0 THEN 0 ELSE SumWidths(fields, n - 1) + fields[n].Width

TotalWidth(fields) == SumWidths(fields, Len(fields))

LineTooShort(line, fields) == Len(line) < TotalWidth(fields)

HasDot(name) == \E k \in 1..Len(name) : name[k] = "."

\* The schema file name up to, not including, its last ".", then ".txt".
PairedDataName(name) ==
    LET k == CHOOSE k \in 1..Len(name) :
                 /\ name[k] = "."
                 /\ \A j \in (k + 1)..Len(name) : name[j] # "."
    IN  SubSeq(name, 1, k - 1) \o <<".", "t", "x", "t">>

\* main is inside the lines loop of the current pair, or a decode ended it.
DecodePanicked == pc = "panicked" /\ panicked = "slice bounds out of range"
SchemaPanicked == pc = "panicked" /\ panicked = "index out of range"
SchemaLoaded == pc \in {"name", "data", "record", "post"} \/ DecodePanicked
DataLoaded == pc \in {"record", "post"} \/ DecodePanicked

RECURSIVE DocsOf(_, _, _)
\* The documents of the lines, among the first n, that decode.
DocsOf(lines, fields, n) ==
    IF n = 0 THEN << >>
    ELSE LET r == getRecordJson(lines[n], fields) IN
         IF r.kind = "ok"
         THEN Append(DocsOf(lines, fields, n - 1), r.json)
         ELSE DocsOf(lines, fields, n - 1)

SchemaLoads(name) == getSchema(schemaDir[name]).kind = "ok"

\* The pair's schema loads and its name has a ".", but its data file does
\* not load.
DataLoadFails(name) ==
    /\ SchemaLoads(name)
    /\ HasDot(name)
    /\ getData(dataDir, PairedDataName(name)).err

\* The documents a schema/data pair is to submit: those of its decodable
\* lines in file order, none when the schema, the name or the data fails.
PairDocs(name) ==
    IF SchemaLoads(name) /\ HasDot(name) /\ ~DataLoadFails(name)
    THEN LET d == getData(dataDir, PairedDataName(name)) IN
         DocsOf(d.records, getSchema(schemaDir[name]).fields, Len(d.records))
    ELSE << >>

RECURSIVE DocsBefore(_)
\* The documents of the first n pairs of the listing.
DocsBefore(n) ==
    IF n = 0 THEN << >> ELSE DocsBefore(n - 1) \o PairDocs(fileNames[n])

RECURSIVE OpenedBefore(_)
\* The data files the first n pairs of the listing are to open.
OpenedBefore(n) ==
    IF n = 0 THEN << >>
    ELSE IF SchemaLoads(fileNames[n]) /\ HasDot(fileNames[n])
    THEN Append(OpenedBefore(n - 1), PairedDataName(fileNames[n]))
    ELSE OpenedBefore(n - 1)

\* A schema row fails validation: its width is no integer, or its type is
\* not in the vocabulary.
RowInvalid(record) ==
    \/ /\ Len(record) > CSV_WIDTH_INDEX
       /\ Atoi(TrimSpace(record[CSV_WIDTH_INDEX + 1])).err
    \/ /\ Len(record) > CSV_DATA_TYPE_INDEX
       /\ record[CSV_DATA_TYPE_INDEX + 1] \notin
             {DATA_TYPE_TEXT, DATA_TYPE_INTEGER, DATA_TYPE_BOOLEAN}

HasInvalidRow(file) ==
    /\ ~file.openErr
    /\ ~file.parseErr
    /\ \E i \in 1..Len(file.records) : RowInvalid(file.records[i])

\* --------------------------------------------------------------- claims

\* C1: a data line shorter than the sum of the schema's widths is decoded
\* to an error, logged and skipped, and the run goes on with the remaining
\* lines and files: no line reached so far that is too short has ended the
\* run.
C1_ShortLineIsSkipped ==
    DataLoaded =>
        \A j \in 1..Len(dataRecords) :
            (j <= li /\ LineTooShort(dataRecords[j], schema))
                => pc # "panicked"

\* C2: the run ends abnormally only if the schema directory cannot be
\* listed.
C2_PanicOnlyIfDirUnreadable ==
    pc = "panicked" => ~dirOK

\* C3: for a pair whose schema and data load, the documents handed to
\* postRecord are exactly those of the lines decoded so far without error,
\* in file order, one per line: a line with an invalid literal submits
\* nothing and the lines after it are still decoded and submitted.
C3_PostedAreDecodedLinesInOrder ==
    /\ pc \in {"record", "post"} =>
          posted = DocsBefore(fi - 1) \o DocsOf(dataRecords, schema, li - 1)
    /\ pc = "post" =>
          /\ getRecordJson(dataRecords[li], schema).kind = "ok"
          /\ recordJson = getRecordJson(dataRecords[li], schema).json
    /\ (pc \in {"file", "finished"} /\ fi > 1) => posted = DocsBefore(fi - 1)

\* C3 witness: a pair is done in which a line with an invalid literal was
\* followed by a line that decoded, and the later line's document is the
\* last one submitted.
C3_Witness ==
    /\ pc = "record"
    /\ li > Len(dataRecords)
    /\ \E j \in 1..Len(dataRecords) : \E k \in (j + 1)..Len(dataRecords) :
          /\ getRecordJson(dataRecords[j], schema).kind = "error"
          /\ getRecordJson(dataRecords[k], schema).kind = "ok"
          /\ posted # << >>
          /\ posted[Len(posted)] = getRecordJson(dataRecords[k], schema).json

\* C4: a schema file with a row that fails validation makes getSchema
\* return an error and no schema; no line of the paired data file is
\* decoded or submitted and the coordinator goes on with the next file.
C4_InvalidRowAbortsSchema ==
    /\ (pc \in {"name", "data", "record", "post", "panicked"} /\ dirOK)
          => ~HasInvalidRow(schemaDir[fileNames[fi]])
    /\ (pc \in {"file", "finished"} /\ fi > 1
          /\ HasInvalidRow(schemaDir[fileNames[fi - 1]]))
          => /\ schema = << >>
             /\ posted = DocsBefore(fi - 2)
             /\ opened = OpenedBefore(fi - 2)

\* C5: on a line at least as long as the total schema width, getRecordJson
\* gives each field the trimmed substring at [sum of the widths before it,
\* that sum plus its width), read by the field's type.
C5_FieldsAreTrimmedSlices ==
    (DataLoaded /\ pc # "record" /\ ~LineTooShort(dataRecords[li], schema))
    => /\ pc # "panicked"
       /\ \A i \in 1..Len(schema) :
             LET text == TrimSpace(SubSeq(dataRecords[li],
                                          SumWidths(schema, i - 1) + 1,
                                          SumWidths(schema, i)))
                 value == recordJson[schema[i].Name]
             IN  (\A j \in (i + 1)..Len(schema) : schema[j].Name # schema[i].Name)
                 => CASE schema[i].Type = DATA_TYPE_BOOLEAN ->
                           /\ value.type = "bool"
                           /\ text \in (IF value.bool THEN TrueLiterals
                                                      ELSE FalseLiterals)
                      [] schema[i].Type = DATA_TYPE_INTEGER ->
                           /\ value.type = "int"
                           /\ ~Atoi(text).err
                           /\ value.int = Atoi(text).val
                      [] schema[i].Type = DATA_TYPE_TEXT ->
                           /\ value.type = "string"
                           /\ value.text = text

\* C6: a decoded record has exactly one entry per field definition of its
\* schema.
C6_OneEntryPerField ==
    pc = "post" => Cardinality(DOMAIN recordJson) = Len(schema)

\* C7: every field of a schema that getSchema returns has a positive
\* width.
C7_WidthsArePositive ==
    SchemaLoaded => \A i \in 1..Len(schema) : schema[i].Width > 0

\* The pairs whose data-file stage main has been through: those before the
\* current one, and the current one once its data is loaded.
PairsThroughData == IF DataLoaded THEN fi ELSE fi - 1

C10_PostOutcomeChangesNothing ==
    [][ pc = "post" =>
          /\ pc' = "record"
          /\ li' = li + 1
          /\ posted' = Append(posted, recordJson)
          /\ UNCHANGED << files, fileNames, fi, schema, dataFileName,
                          dataRecords, opened, panicked >> ]_vars

\* C10 witness: a submission has just ended in a transport error, lines of
\* the file remain, and the next of them is the one to decode.
C10_Witness ==
    /\ pc = "record"
    /\ logged = <<"POSTing JSON data to API", "Received error response from API">>
    /\ li <= Len(dataRecords)
    /\ posted # << >>

=============================================================================
